---- MODULE Spec2Model ----
(***************************************************************************)
(* Model of window.MouseState (src/unnamed/part_000, lines 1249-1379):     *)
(* the per-button click / double-click state machine driven by the         *)
(* window's OnMouseDown and OnMouseUp events.                              *)
(*                                                                         *)
(* Time is counted in milliseconds, the unit of                            *)
(* DefaultDoubleClickDuration.  time.Now() is the variable clock, which    *)
(* only AdvanceClock advances; a handler reads it without changing it.     *)
(***************************************************************************)
EXTENDS Integers, FiniteSets, Sequences, TLC

\* ------------------------------------------------------------------ bounds
\* The clock stops advancing after MaxTicks steps of Tick milliseconds.
MaxTicks == 4

\* --------------------------------------------------------------- constants
\* const DefaultDoubleClickDuration = 300 (millis)
DefaultDoubleClickDuration == 300

\* Granularity of the modelled clock: a third of the default window, so that
\* a second down can fall inside, exactly on, and outside the window.
Tick == DefaultDoubleClickDuration \div 3

MouseButtonLeft == "Left"
MouseButtonRight == "Right"
MouseButtonMiddle == "Middle"
\* A button identity of the MouseButton type that NewMouseState does not track.
MouseButtonOther == "Button4"

\* The keys of ms.states, as built by NewMouseState.
TrackedButtons == {MouseButtonLeft, MouseButtonRight, MouseButtonMiddle}

\* Every button identity an event may carry.
MouseButtons == TrackedButtons \cup {MouseButtonOther}

\* Values a caller assigns to the exported field DoubleClickDuration.
Durations == {0 - Tick, 0, DefaultDoubleClickDuration}

\* No down event has been processed yet (history only).
NoButton == "none"

\* Event names the tracker subscribes to.
OnMouseUp == "OnMouseUp"
OnMouseDown == "OnMouseDown"

\* &ms in NewMouseState: the address of NewMouseState's local variable ms.
NewMouseStateToken == "&ms in NewMouseState"
\* &ms in Dispose: the address of Dispose's receiver variable ms, a variable
\* other than NewMouseState's local, so a different pointer value.
DisposeToken == "&ms in Dispose"
SecondToken_Shared == NewMouseStateToken

\* &ms in the NewMouseState call that constructs a second tracker: the
\* address of that call's own local variable.
SecondToken == "&ms in second NewMouseState"

VARIABLES
    clock,                \* the value time.Now() returns
    lastButton,           \* ms.lastButton
    DoubleClickDuration,  \* ms.DoubleClickDuration
    states,               \* ms.states: button -> mouseButtonState
    panicked,             \* a handler dereferenced the nil state of an untracked button
    lastDown,             \* history: button of the most recent down event
    lastEvent,            \* history: kind of the last event of each tracked button
    lastRow,              \* history: branch the most recent down event took
    subscriptions,        \* the window's registry: set of <<event name, id>>
    disposed,             \* history: Dispose has been called
    failure,              \* history: the call that panicked
    tracker2              \* a second MouseState on the same window, once constructed

VARIABLES
    btnSelected,          \* Button.selected of each button
    btnMouseOver,         \* Button.mouseOver of each button
    btnGroups,            \* Button.groups of each button
    tgMembers,            \* ToggleGroup.members of each toggle group
    tgDeselectingAllowed, \* ToggleGroup.DeselectingAllowed of each toggle group
    crState,              \* CheckRadio.state of each check box or radio button
    crGroups,             \* CheckRadio.groups
    rgMembers,            \* RadioGroup.members of each radio group
    rgDeselectingAllowed, \* RadioGroup.DeselectingAllowed of each radio group
    tabs,                 \* TabBar.tabs
    tabSelected,          \* Tab.selected of each tab of the bar (FALSE for a tab not in it)
    tbSelected,           \* TabBar.selected
    splitter,             \* the fields of a Splitter
    dock,                 \* a DockLayout, its panel's children and their layout
    ret,                  \* the value the last widget call returned, "none" if it returns none
    lastCall              \* history: the last widget call, its target or position, and the
                          \* branch it took or its second argument

toggleVars == <<btnSelected, btnMouseOver, btnGroups, tgMembers, tgDeselectingAllowed>>

radioVars == <<crState, crGroups, rgMembers, rgDeselectingAllowed>>

tabVars == <<tabs, tabSelected, tbSelected>>

\* The variables of the gui package's splitter and dock layout.
layoutVars == <<splitter, dock>>

\* The variables of the gui package's widgets.
guiVars == <<toggleVars, radioVars, tabVars, layoutVars, ret, lastCall>>

vars == <<clock, lastButton, DoubleClickDuration, states, panicked, lastDown, lastEvent, lastRow,
          subscriptions, disposed, failure, tracker2, guiVars>>

\* The part of the state no handler of the tracker touches.
winVars == <<subscriptions, disposed>>

\* ------------------------------------------------------------ mouseButtonState
mouseButtonState(count, t) == [clickCount |-> count, lastClick |-> t]

doubleClicked_OnlyHeld(s) == s.clickCount = 2

\* func (s *mouseButtonState) doubleClicked() bool
doubleClicked(s) == s.clickCount = 2 \/ s.clickCount = -2

\* ----------------------------------------------------------------- queries
Pressed_NonZero(b) == states[b].clickCount # 0

\* func (ms *MouseState) Pressed(b MouseButton) bool, for a tracked b
Pressed(b) == states[b].clickCount > 0

LeftPressed == states[MouseButtonLeft].clickCount > 0
RightPressed == states[MouseButtonRight].clickCount > 0
MiddlePressed == states[MouseButtonMiddle].clickCount > 0

LeftDoubleClicked_Ungated == doubleClicked(states[MouseButtonLeft])

LeftDoubleClicked ==
    lastButton = MouseButtonLeft /\ doubleClicked(states[MouseButtonLeft])
RightDoubleClicked_Ungated == doubleClicked(states[MouseButtonRight])

RightDoubleClicked ==
    lastButton = MouseButtonRight /\ doubleClicked(states[MouseButtonRight])
MiddleDoubleClicked ==
    lastButton = MouseButtonMiddle /\ doubleClicked(states[MouseButtonMiddle])

\* The three per-button accessors, selected by button identity.
DoubleClicked(b) ==
    CASE b = MouseButtonLeft -> LeftDoubleClicked
      [] b = MouseButtonRight -> RightDoubleClicked
      [] b = MouseButtonMiddle -> MiddleDoubleClicked

\* ---------------------------------------------------------------- handlers
\* t.Add(d).Before(now)
AddBefore(t, d, now) == t + d < now

upState_StampRelease(s) ==
    IF s.clickCount > 0 THEN mouseButtonState(0 - s.clickCount, clock) ELSE s

upState_Always(s) == mouseButtonState(0 - s.clickCount, s.lastClick)

upState_ForgetDouble(s) ==
    IF s.clickCount > 0 THEN mouseButtonState(0 - 1, s.lastClick) ELSE s

upState_DoubleToIdle(s) ==
    IF s.clickCount = 2 THEN mouseButtonState(0, s.lastClick)
    ELSE IF s.clickCount > 0 THEN mouseButtonState(0 - s.clickCount, s.lastClick)
    ELSE s

\* State of the event's button after onMouseUp.
upState(s) ==
    IF s.clickCount > 0
    THEN mouseButtonState(s.clickCount * (0 - 1), s.lastClick)
    ELSE s

downIdle_NoStamp(s, now) == mouseButtonState(1, s.lastClick)

\* onMouseDown, clickCount == 0.
downIdle(s, now) == mouseButtonState(1, now)

downReleased_Exclusive(s, now, d) ==
    IF ~(now < s.lastClick + d)
    THEN mouseButtonState(1, now)
    ELSE mouseButtonState(2, s.lastClick)

downReleased_NeverExpires(s, now, d) == mouseButtonState(2, s.lastClick)

downReleased_NonPositive(s, now, d) ==
    IF d <= 0 \/ AddBefore(s.lastClick, d, now)
    THEN mouseButtonState(1, now)
    ELSE mouseButtonState(2, s.lastClick)

downReleased_AbsWindow(s, now, d) ==
    IF AddBefore(s.lastClick, IF d < 0 THEN 0 - d ELSE d, now)
    THEN mouseButtonState(1, now)
    ELSE mouseButtonState(2, s.lastClick)

downReleased_StampDouble(s, now, d) ==
    IF AddBefore(s.lastClick, d, now)
    THEN mouseButtonState(1, now)
    ELSE mouseButtonState(2, now)

\* onMouseDown, clickCount == -1.
downReleased(s, now, d) ==
    IF AddBefore(s.lastClick, d, now)
    THEN mouseButtonState(1, now)
    ELSE mouseButtonState(2, s.lastClick)

downOther_Increment(s, now) ==
    IF s.clickCount > 0
    THEN mouseButtonState(s.clickCount + 1, now)
    ELSE mouseButtonState(1, now)

downOther_Triple(s, now) ==
    IF s.clickCount = -2
    THEN mouseButtonState(2, now)
    ELSE mouseButtonState(1, now)

downOther_Held(s, now) ==
    IF s.clickCount > 0
    THEN mouseButtonState(2, s.lastClick)
    ELSE mouseButtonState(1, now)

\* onMouseDown, clickCount is 1, 2 or -2 (the fall-through assignment).
downOther(s, now) == mouseButtonState(1, now)

\* State of the event's button after onMouseDown.
downState(s, now, d) ==
    IF s.clickCount = 0 THEN downIdle(s, now)
    ELSE IF s.clickCount = -1 THEN downReleased(s, now, d)
    ELSE downOther(s, now)

\* The branch of onMouseDown an event on a button in state s takes (history).
downRow(s, now, d) ==
    IF s.clickCount = 0 THEN "idle"
    ELSE IF s.clickCount = -1
         THEN IF AddBefore(s.lastClick, d, now) THEN "expired"
              ELSE IF s.lastClick + d = now THEN "boundary" ELSE "within"
    ELSE IF s.clickCount = -2 THEN "afterDouble" ELSE "alreadyDown"

lastButtonAfterDown_AfterReturn(b) ==
    IF b \in DOMAIN states /\ states[b].clickCount = 0 THEN lastButton ELSE b

\* ms.lastButton = mev.Button, the first statement of onMouseDown.
lastButtonAfterDown(b) == b

onMouseUp_AllButtons(b) ==
    /\ ~panicked
    /\ IF b \in DOMAIN states
       THEN /\ states' = [o \in DOMAIN states |-> upState(states[o])]
            /\ lastEvent' = [lastEvent EXCEPT ![b] = "up"]
            /\ UNCHANGED <<panicked, failure>>
       ELSE /\ panicked' = TRUE
            /\ failure' = "onMouseUp"
            /\ UNCHANGED <<states, lastEvent>>
    /\ UNCHANGED <<clock, lastButton, DoubleClickDuration, lastDown, lastRow>>
    /\ UNCHANGED winVars
    /\ UNCHANGED guiVars

\* func (ms *MouseState) onMouseUp(evname string, ev interface{})
onMouseUp(b) ==
    /\ ~panicked
    /\ IF b \in DOMAIN states
       THEN /\ states' = [states EXCEPT ![b] = upState(states[b])]
            /\ lastEvent' = [lastEvent EXCEPT ![b] = "up"]
            /\ UNCHANGED <<panicked, failure>>
       ELSE /\ panicked' = TRUE
            /\ failure' = "onMouseUp"
            /\ UNCHANGED <<states, lastEvent>>
    /\ UNCHANGED <<clock, lastButton, DoubleClickDuration, lastDown, lastRow>>
    /\ UNCHANGED winVars
    /\ UNCHANGED guiVars

\* func (ms *MouseState) onMouseDown(evname string, ev interface{})
onMouseDown(b) ==
    /\ ~panicked
    /\ lastButton' = lastButtonAfterDown(b)
    /\ lastDown' = b
    /\ IF b \in DOMAIN states
       THEN /\ states' = [states EXCEPT
                   ![b] = downState(states[b], clock, DoubleClickDuration)]
            /\ lastEvent' = [lastEvent EXCEPT ![b] = "down"]
            /\ lastRow' = downRow(states[b], clock, DoubleClickDuration)
            /\ UNCHANGED <<panicked, failure>>
       ELSE /\ panicked' = TRUE
            /\ failure' = "onMouseDown"
            /\ lastRow' = "untracked"
            /\ UNCHANGED <<states, lastEvent>>
    /\ UNCHANGED <<clock, DoubleClickDuration>>
    /\ UNCHANGED winVars
    /\ UNCHANGED guiVars

SetDoubleClickDuration_Restamp(d) ==
    /\ ~panicked
    /\ d # DoubleClickDuration
    /\ DoubleClickDuration' = d
    /\ states' = [b \in DOMAIN states |-> mouseButtonState(states[b].clickCount, clock)]
    /\ UNCHANGED <<clock, lastButton, panicked, lastDown, lastEvent, lastRow>>
    /\ UNCHANGED <<failure, tracker2>>
    /\ UNCHANGED winVars
    /\ UNCHANGED guiVars

\* A caller assigns the exported field ms.DoubleClickDuration.
SetDoubleClickDuration(d) ==
    /\ ~panicked
    /\ d # DoubleClickDuration
    /\ DoubleClickDuration' = d
    /\ UNCHANGED <<clock, lastButton, states, panicked, lastDown, lastEvent, lastRow>>
    /\ UNCHANGED <<failure, tracker2>>
    /\ UNCHANGED winVars
    /\ UNCHANGED guiVars

AdvanceClock_Expire ==
    /\ ~panicked
    /\ clock + Tick <= MaxTicks * Tick
    /\ clock' = clock + Tick
    /\ states' = [b \in DOMAIN states |->
                    IF /\ states[b].clickCount < 0
                       /\ AddBefore(states[b].lastClick, DoubleClickDuration, clock + Tick)
                    THEN mouseButtonState(0, states[b].lastClick)
                    ELSE states[b]]
    /\ UNCHANGED <<lastButton, DoubleClickDuration, panicked, lastDown, lastEvent, lastRow>>
    /\ UNCHANGED winVars
    /\ UNCHANGED guiVars
    /\ UNCHANGED <<failure, tracker2>>

\* Time passes between two events.
AdvanceClock ==
    /\ ~panicked
    /\ clock + Tick <= MaxTicks * Tick
    /\ clock' = clock + Tick
    /\ UNCHANGED <<lastButton, DoubleClickDuration, states, panicked, lastDown, lastEvent, lastRow>>
    /\ UNCHANGED <<failure, tracker2>>
    /\ UNCHANGED winVars
    /\ UNCHANGED guiVars

\* Outcome of the call ms.Pressed(b): the nil state of an untracked button is
\* dereferenced.
PressedOutcome(b) ==
    IF b \in DOMAIN states
    THEN IF states[b].clickCount > 0 THEN "true" ELSE "false"
    ELSE "panic"

PressedCall_Inserts(b) ==
    /\ ~panicked
    /\ states' = [o \in DOMAIN states \cup {b} |->
                    IF o \in DOMAIN states THEN states[o] ELSE mouseButtonState(0, clock)]
    /\ UNCHANGED <<clock, lastButton, DoubleClickDuration, panicked, lastDown, lastEvent, lastRow>>
    /\ UNCHANGED <<failure, tracker2>>
    /\ UNCHANGED winVars
    /\ UNCHANGED guiVars

\* A consumer calls ms.Pressed(b).
PressedCall(b) ==
    /\ ~panicked
    /\ panicked' = (PressedOutcome(b) = "panic")
    /\ failure' = IF PressedOutcome(b) = "panic" THEN "Pressed" ELSE failure
    /\ UNCHANGED <<clock, lastButton, DoubleClickDuration, states, lastDown, lastEvent, lastRow>>
    /\ UNCHANGED tracker2
    /\ UNCHANGED winVars
    /\ UNCHANGED guiVars

\* The window's UnsubscribeID(evname, id): removes the handlers registered
\* for evname under id.
UnsubscribeID(subs, evname, id) == subs \ {<<evname, id>>}

\* The window has a handler of the tracker registered for evname.
Subscribed(evname) == \E sub \in subscriptions : sub[1] = evname

\* The window has a handler registered for evname under id.
SubscribedAs(evname, id) == <<evname, id>> \in subscriptions

\* The variables of the first tracker and its history.
firstVars == <<lastButton, DoubleClickDuration, states, panicked, lastDown, lastEvent, lastRow, failure>>

\* The second tracker after its onMouseDown has handled a down event of b.
secondDown(t, b) ==
    [t EXCEPT !.lastButton = b,
              !.states[b] = downState(@, clock, t.DoubleClickDuration)]

\* The second tracker after its onMouseUp has handled an up event of b.
secondUp(t, b) == [t EXCEPT !.states[b] = upState(@)]

\* The window dispatches a mouse-down event to every subscribed handler, in
\* the order of subscription; a panic in the first handler ends the dispatch.
MouseDownEvent(b) ==
    /\ Subscribed(OnMouseDown)
    /\ IF SubscribedAs(OnMouseDown, NewMouseStateToken)
       THEN onMouseDown(b)
       ELSE ~panicked /\ UNCHANGED <<clock, firstVars, winVars, guiVars>>
    /\ tracker2' = IF SubscribedAs(OnMouseDown, SecondToken) /\ b \in DOMAIN states
                   THEN secondDown(tracker2, b)
                   ELSE tracker2

\* The window dispatches a mouse-up event to every subscribed handler.
MouseUpEvent(b) ==
    /\ Subscribed(OnMouseUp)
    /\ IF SubscribedAs(OnMouseUp, NewMouseStateToken)
       THEN onMouseUp(b)
       ELSE ~panicked /\ UNCHANGED <<clock, firstVars, winVars, guiVars>>
    /\ tracker2' = IF SubscribedAs(OnMouseUp, SecondToken) /\ b \in DOMAIN states
                   THEN secondUp(tracker2, b)
                   ELSE tracker2

\* The window's SubscribeID(evname, id, handler): registers a handler for
\* evname under id.
SubscribeID(subs, evname, id) == subs \cup {<<evname, id>>}

\* A second NewMouseState(win) on the same window.
NewSecondMouseState ==
    /\ ~panicked
    /\ ~tracker2.constructed
    /\ \E zero \in MouseButtons :
          tracker2' = [constructed |-> TRUE,
                       disposed |-> FALSE,
                       lastButton |-> zero,
                       DoubleClickDuration |-> DefaultDoubleClickDuration,
                       states |-> [b \in TrackedButtons |-> mouseButtonState(0, clock)]]
    /\ subscriptions' =
          SubscribeID(SubscribeID(subscriptions, OnMouseUp, SecondToken),
                      OnMouseDown, SecondToken)
    /\ UNCHANGED <<clock, firstVars, disposed, guiVars>>

\* Dispose of the second tracker.
DisposeSecond ==
    /\ ~panicked
    /\ tracker2.constructed
    /\ ~tracker2.disposed
    /\ tracker2' = [tracker2 EXCEPT !.disposed = TRUE]
    /\ subscriptions' =
          UnsubscribeID(UnsubscribeID(subscriptions, OnMouseUp, DisposeToken),
                        OnMouseDown, DisposeToken)
    /\ UNCHANGED <<clock, firstVars, disposed, guiVars>>

\* func (ms *MouseState) Dispose()
Dispose ==
    /\ ~panicked
    /\ ~disposed
    /\ disposed' = TRUE
    /\ subscriptions' =
          UnsubscribeID(UnsubscribeID(subscriptions, OnMouseUp, DisposeToken),
                        OnMouseDown, DisposeToken)
    /\ UNCHANGED <<clock, lastButton, DoubleClickDuration, states, panicked, lastDown, lastEvent, lastRow>>
    /\ UNCHANGED <<failure, tracker2, guiVars>>

\* No second tracker has been constructed.
NoSecondTracker ==
    [constructed |-> FALSE,
     disposed |-> FALSE,
     lastButton |-> NoButton,
     DoubleClickDuration |-> DefaultDoubleClickDuration,
     states |-> [b \in TrackedButtons |-> mouseButtonState(0, 0)]]

\* The elements of a sequence.
Range(seq) == {seq[i] : i \in DOMAIN seq}

\* The variables of the window package's trackers.
mouseVars == <<clock, firstVars, winVars, tracker2>>

\* Largest number of tabs in the tab bar.
MaxTabs == 3

\* Recalc is called at most this often on one panel.
MaxRecalcs == 2

OnKeyDown == "OnKeyDown"

OnKeyUp == "OnKeyUp"

OnCursorEnter == "OnCursorEnter"

OnCursorLeave == "OnCursorLeave"

KeyEnter == "KeyEnter"

\* Some key other than Enter.
KeySpace == "KeySpace"

Keys == {KeyEnter, KeySpace}

\* Two toggle buttons made by NewToggleButton.
ToggleButtons == {"toggle1", "toggle2"}

\* A push button made by NewButton.
PlainButtons == {"plain"}

Buttons == ToggleButtons \cup PlainButtons

\* Button.toggle
toggle(b) == b \in ToggleButtons

ToggleGroups == {"tg1", "tg2"}

\* Two radio buttons made by NewRadioButton.
RadioButtons == {"radio1", "radio2"}

\* A check box made by NewCheckBox.
CheckBoxes == {"check"}

CheckRadios == RadioButtons \cup CheckBoxes

\* CheckRadio.check
check(cb) == cb \in CheckBoxes

RadioGroups == {"rg1", "rg2"}

\* The tabs that can be created.
TabIds == 1..MaxTabs

\* Positions of the splitter are kept in hundredths: 50 is the relative
\* position 0.5 or half a pixel.
Scale == 100

\* math.MaxInt32
MaxInt32 == 2147483647

\* float32(n) for a number of pixels n, in hundredths; a limit beyond every
\* position stays beyond every position.
Hundredths(n) == IF n > MaxInt32 \div Scale THEN MaxInt32 ELSE n * Scale

\* ContentWidth() of the splitter, in pixels.
ContentWidth == 100

\* Width() of the spacer panel, in pixels: SpacerSize of the style.
SpacerSize == 4

Relative == "Relative"

Absolute == "Absolute"

ReverseAbsolute == "ReverseAbsolute"

\* newSplitter(true, width, height)
NewHSplitter ==
    [splitType |-> Relative,
     pos |-> Scale \div 2,
     posLast |-> 0,
     min0 |-> 0,
     max0 |-> MaxInt32,
     min1 |-> 0,
     max1 |-> MaxInt32,
     leftPressed |-> FALSE,
     rightPressed |-> FALSE,
     mouseOver |-> FALSE]

DockTop == 1

DockRight == 2

DockBottom == 3

DockLeft == 4

DockCenter == 5

\* The children of the panel the dock layout lays out, in the order of
\* pan.Children().
DockChildren == <<"child1", "child2">>

\* Width() and Height() of the panel, and of every child before its first layout.
PanelWidth == 100

PanelHeight == 80

ChildSize == 10

\* layoutParams of a child not docked: nil.
NoParams == 0

\* The panel before a layout is set: the children have no layout parameters.
NoDockLayout ==
    [incumbents |-> <<>>,
     edge |-> [c \in Range(DockChildren) |-> NoParams],
     x |-> [c \in Range(DockChildren) |-> 0],
     y |-> [c \in Range(DockChildren) |-> 0],
     width |-> [c \in Range(DockChildren) |-> ChildSize],
     height |-> [c \in Range(DockChildren) |-> ChildSize],
     laid |-> [c \in Range(DockChildren) |-> 0],
     recalcs |-> 0]

\* The widgets of the gui package after construction: buttons and check
\* boxes unselected and in no group, NewToggleGroup(false) and
\* NewToggleGroup(true), NewRadioGroup(false) and NewRadioGroup(true), an
\* empty tab bar, a horizontal splitter and a panel without dock layout.
GuiInit ==
    /\ btnSelected = [b \in Buttons |-> FALSE]
    /\ btnMouseOver = [b \in Buttons |-> FALSE]
    /\ btnGroups = [b \in Buttons |-> <<>>]
    /\ tgMembers = [g \in ToggleGroups |-> <<>>]
    /\ tgDeselectingAllowed = [g \in ToggleGroups |-> g = "tg2"]
    /\ crState = [cb \in CheckRadios |-> FALSE]
    /\ crGroups = [cb \in CheckRadios |-> <<>>]
    /\ rgMembers = [g \in RadioGroups |-> <<>>]
    /\ rgDeselectingAllowed = [g \in RadioGroups |-> g = "rg2"]
    /\ tabs = <<>>
    /\ tabSelected = [t \in TabIds |-> FALSE]
    /\ tbSelected = 0 - 1
    /\ splitter = NewHSplitter
    /\ dock = NoDockLayout
    /\ ret = "none"
    /\ lastCall = <<"none", "none", "none">>

Init_NoMillisecond ==
    /\ clock = 0
    /\ lastButton \in MouseButtons
    /\ DoubleClickDuration = 0
    /\ states = [b \in TrackedButtons |-> mouseButtonState(0, 0)]
    /\ panicked = FALSE
    /\ lastDown = NoButton
    /\ lastEvent = [b \in TrackedButtons |-> "none"]
    /\ lastRow = "none"
    /\ subscriptions = {<<OnMouseUp, NewMouseStateToken>>, <<OnMouseDown, NewMouseStateToken>>}
    /\ disposed = FALSE
    /\ failure = "none"
    /\ tracker2 = NoSecondTracker
    /\ GuiInit

\* func NewMouseState(win IWindow) *MouseState
\* lastButton holds the zero value of MouseButton, whose button identity is
\* declared outside this file.
Init ==
    /\ clock = 0
    /\ lastButton \in MouseButtons
    /\ DoubleClickDuration = DefaultDoubleClickDuration
    /\ states = [b \in TrackedButtons |-> mouseButtonState(0, 0)]
    /\ panicked = FALSE
    /\ lastDown = NoButton
    /\ lastEvent = [b \in TrackedButtons |-> "none"]
    /\ lastRow = "none"
    /\ subscriptions = {<<OnMouseUp, NewMouseStateToken>>, <<OnMouseDown, NewMouseStateToken>>}
    /\ disposed = FALSE
    /\ failure = "none"
    /\ tracker2 = NoSecondTracker
    /\ GuiInit

Next ==
    \/ \E b \in MouseButtons : MouseDownEvent(b)
    \/ \E b \in MouseButtons : MouseUpEvent(b)
    \/ \E b \in MouseButtons : PressedCall(b)
    \/ \E d \in Durations : SetDoubleClickDuration(d)
    \/ AdvanceClock

\* The tracker while it is in use.
Spec == Init /\ [][Next]_vars

NextLifecycle ==
    \/ Next
    \/ Dispose

\* The tracker from construction to disposal and after.
SpecLifecycle == Init /\ [][NextLifecycle]_vars

NextTwo ==
    \/ NewSecondMouseState
    \/ \E b \in MouseButtons : MouseDownEvent(b)
    \/ \E b \in MouseButtons : MouseUpEvent(b)
    \/ Dispose
    \/ DisposeSecond

\* Two trackers on the same window.
SpecTwo == Init /\ [][NextTwo]_vars

----
\* gui.Button and gui.ToggleGroup

\* The sequence without its first occurrence of x.
RemoveFirst(seq, x) ==
    IF x \notin Range(seq)
    THEN seq
    ELSE LET i == CHOOSE k \in DOMAIN seq : seq[k] = x /\ \A j \in 1..(k - 1) : seq[j] # x
         IN  SubSeq(seq, 1, i - 1) \o SubSeq(seq, i + 1, Len(seq))

\* ToggleGroup.Contains(button)
Contains(tg, button) == button \in Range(tgMembers[tg])

\* ToggleGroup.Add(toggleButton)
Add_NoContainsTest(tg, toggleButton) ==
    /\ IF ~toggle(toggleButton)
       THEN ret' = "false" /\ UNCHANGED <<tgMembers, btnGroups>>
       ELSE /\ tgMembers' = [tgMembers EXCEPT ![tg] = Append(@, toggleButton)]
            /\ btnGroups' = [btnGroups EXCEPT ![toggleButton] = Append(@, tg)]
            /\ ret' = "true"
    /\ lastCall' = <<"Add", tg, toggleButton>>
    /\ UNCHANGED <<btnSelected, btnMouseOver, tgDeselectingAllowed>>
    /\ UNCHANGED <<mouseVars, radioVars, tabVars, layoutVars>>

Add(tg, toggleButton) ==
    /\ IF ~toggle(toggleButton) \/ Contains(tg, toggleButton)
       THEN ret' = "false" /\ UNCHANGED <<tgMembers, btnGroups>>
       ELSE /\ tgMembers' = [tgMembers EXCEPT ![tg] = Append(@, toggleButton)]
            /\ btnGroups' = [btnGroups EXCEPT ![toggleButton] = Append(@, tg)]
            /\ ret' = "true"
    /\ lastCall' = <<"Add", tg, toggleButton>>
    /\ UNCHANGED <<btnSelected, btnMouseOver, tgDeselectingAllowed>>
    /\ UNCHANGED <<mouseVars, radioVars, tabVars, layoutVars>>

\* ToggleGroup.Remove(button)
Remove(tg, button) ==
    /\ IF Contains(tg, button) /\ tg \in Range(btnGroups[button])
       THEN /\ tgMembers' = [tgMembers EXCEPT ![tg] = RemoveFirst(@, button)]
            /\ btnGroups' = [btnGroups EXCEPT ![button] = RemoveFirst(@, tg)]
            /\ ret' = "true"
       ELSE ret' = "false" /\ UNCHANGED <<tgMembers, btnGroups>>
    /\ lastCall' = <<"Remove", tg, button>>
    /\ UNCHANGED <<btnSelected, btnMouseOver, tgDeselectingAllowed>>
    /\ UNCHANGED <<mouseVars, radioVars, tabVars, layoutVars>>

\* Button.deselectingAllowed()
deselectingAllowed_Any(b) ==
    \E g \in Range(btnGroups[b]) : tgDeselectingAllowed[g]

deselectingAllowed(b) ==
    \A g \in Range(btnGroups[b]) : tgDeselectingAllowed[g]

\* Button.selected of every button after b.Press(): b is selected, and
\* deselectOthers of each of b's groups has deselected the group's other members.
pressed(b) ==
    [x \in Buttons |->
        IF x = b
        THEN TRUE
        ELSE IF \E g \in Range(btnGroups[b]) : Contains(g, x)
             THEN FALSE
             ELSE btnSelected[x]]

\* Button.Press()
Press(b) ==
    /\ btnSelected' = pressed(b)
    /\ lastCall' = <<"Press", b, "press">>
    /\ ret' = "none"
    /\ UNCHANGED <<btnMouseOver, btnGroups, tgMembers, tgDeselectingAllowed>>
    /\ UNCHANGED <<mouseVars, radioVars, tabVars, layoutVars>>

\* The branch Button.onMouse and Button.onKey take on a down event.
downBranch(b) ==
    IF ~toggle(b) THEN "press"
    ELSE IF ~btnSelected[b] THEN "press"
    ELSE IF deselectingAllowed(b) THEN "deselect"
    ELSE "keep"

\* Button.selected of every button after a down event on b.
buttonDown(b) ==
    CASE downBranch(b) = "press" -> pressed(b)
      [] downBranch(b) = "deselect" -> [btnSelected EXCEPT ![b] = FALSE]
      [] OTHER -> btnSelected

\* Button.selected of every button after an up event on b.
buttonUp(b) == IF ~toggle(b) THEN [btnSelected EXCEPT ![b] = FALSE] ELSE btnSelected

\* Button.onMouse(evname, ev)
Button_onMouse(b, evname) ==
    /\ evname \in {OnMouseDown, OnMouseUp}
    /\ btnSelected' = IF evname = OnMouseDown THEN buttonDown(b) ELSE buttonUp(b)
    /\ lastCall' = <<"onMouse", b, IF evname = OnMouseDown THEN downBranch(b) ELSE "up">>
    /\ ret' = "none"
    /\ UNCHANGED <<btnMouseOver, btnGroups, tgMembers, tgDeselectingAllowed>>
    /\ UNCHANGED <<mouseVars, radioVars, tabVars, layoutVars>>

\* Button.onKey(evname, ev)
Button_onKey(b, evname, key) ==
    /\ evname \in {OnKeyDown, OnKeyUp}
    /\ btnSelected' = IF key # KeyEnter THEN btnSelected
                      ELSE IF evname = OnKeyDown THEN buttonDown(b) ELSE buttonUp(b)
    /\ lastCall' = <<"onKey", b,
                     IF key # KeyEnter THEN "ignored"
                     ELSE IF evname = OnKeyDown THEN downBranch(b) ELSE "up">>
    /\ ret' = "none"
    /\ UNCHANGED <<btnMouseOver, btnGroups, tgMembers, tgDeselectingAllowed>>
    /\ UNCHANGED <<mouseVars, radioVars, tabVars, layoutVars>>

\* Button.onCursor(evname, ev)
Button_onCursor(b, evname) ==
    /\ evname \in {OnCursorEnter, OnCursorLeave}
    /\ btnMouseOver' = [btnMouseOver EXCEPT ![b] = (evname = OnCursorEnter)]
    /\ btnSelected' = IF evname = OnCursorLeave /\ ~toggle(b)
                      THEN [btnSelected EXCEPT ![b] = FALSE]
                      ELSE btnSelected
    /\ lastCall' = <<"onCursor", b, evname>>
    /\ ret' = "none"
    /\ UNCHANGED <<btnGroups, tgMembers, tgDeselectingAllowed>>
    /\ UNCHANGED <<mouseVars, radioVars, tabVars, layoutVars>>

\* The widgets are independent of the mouse tracker: the button the tracker's
\* lastButton starts with is fixed in the widgets' specifications.
InitWidgets == Init /\ lastButton = MouseButtonLeft

NextToggle ==
    \/ \E tg \in ToggleGroups, b \in Buttons : Add(tg, b)
    \/ \E tg \in ToggleGroups, b \in Buttons : Remove(tg, b)
    \/ \E b \in Buttons : Press(b)
    \/ \E b \in Buttons, evname \in {OnMouseDown, OnMouseUp} : Button_onMouse(b, evname)
    \/ \E b \in Buttons, evname \in {OnKeyDown, OnKeyUp}, key \in Keys : Button_onKey(b, evname, key)
    \/ \E b \in Buttons, evname \in {OnCursorEnter, OnCursorLeave} : Button_onCursor(b, evname)

\* Buttons and toggle groups under every sequence of calls and events.
SpecToggle == InitWidgets /\ [][NextToggle]_vars

----
\* gui.CheckRadio and gui.RadioGroup

\* RadioGroup.Contains(radioButton)
RadioGroup_Contains(rg, radioButton) ==
    IF check(radioButton) THEN FALSE ELSE radioButton \in Range(rgMembers[rg])

\* RadioGroup.Add(radioButton)
RadioGroup_Add(rg, radioButton) ==
    /\ IF check(radioButton) \/ RadioGroup_Contains(rg, radioButton)
       THEN ret' = "false" /\ UNCHANGED <<rgMembers, crGroups>>
       ELSE /\ rgMembers' = [rgMembers EXCEPT ![rg] = Append(@, radioButton)]
            /\ crGroups' = [crGroups EXCEPT ![radioButton] = Append(@, rg)]
            /\ ret' = "true"
    /\ lastCall' = <<"RadioGroup.Add", rg, radioButton>>
    /\ UNCHANGED <<crState, rgDeselectingAllowed>>
    /\ UNCHANGED <<mouseVars, toggleVars, tabVars, layoutVars>>

\* RadioGroup.Remove(radioButton)
RadioGroup_Remove(rg, radioButton) ==
    /\ IF /\ ~check(radioButton)
          /\ radioButton \in Range(rgMembers[rg])
          /\ rg \in Range(crGroups[radioButton])
       THEN /\ rgMembers' = [rgMembers EXCEPT ![rg] = RemoveFirst(@, radioButton)]
            /\ crGroups' = [crGroups EXCEPT ![radioButton] = RemoveFirst(@, rg)]
            /\ ret' = "true"
       ELSE ret' = "false" /\ UNCHANGED <<rgMembers, crGroups>>
    /\ lastCall' = <<"RadioGroup.Remove", rg, radioButton>>
    /\ UNCHANGED <<crState, rgDeselectingAllowed>>
    /\ UNCHANGED <<mouseVars, toggleVars, tabVars, layoutVars>>

\* CheckRadio.deselectingAllowed()
CheckRadio_deselectingAllowed(cb) ==
    IF check(cb)
    THEN TRUE
    ELSE \A g \in Range(crGroups[cb]) : rgDeselectingAllowed[g]

\* CheckRadio.SetValue(state)
SetValue(cb, state) ==
    /\ crState' = [crState EXCEPT ![cb] = state]
    /\ ret' = cb
    /\ lastCall' = <<"SetValue", cb, IF state THEN "true" ELSE "false">>
    /\ UNCHANGED <<crGroups, rgMembers, rgDeselectingAllowed>>
    /\ UNCHANGED <<mouseVars, toggleVars, tabVars, layoutVars>>

\* The branch CheckRadio.toggleState() takes.
toggleBranch(cb) ==
    IF check(cb) THEN "check"
    ELSE IF crState[cb] /\ ~CheckRadio_deselectingAllowed(cb) THEN "keep"
    ELSE IF ~crState[cb] THEN "select"
    ELSE "deselect"

\* CheckRadio.state of every widget after cb.toggleState(): a check box is
\* inverted; a radio button that is on stays on unless deselecting is allowed;
\* one that is off goes on after deselectOthers of each of its groups.
toggleState(cb) ==
    CASE toggleBranch(cb) = "check" -> [crState EXCEPT ![cb] = ~crState[cb]]
      [] toggleBranch(cb) = "keep" -> crState
      [] toggleBranch(cb) = "select" ->
            [x \in CheckRadios |->
                IF x = cb THEN TRUE
                ELSE IF \E g \in Range(crGroups[cb]) : x \in Range(rgMembers[g])
                     THEN FALSE
                     ELSE crState[x]]
      [] OTHER -> [crState EXCEPT ![cb] = FALSE]

\* CheckRadio.onMouse(evname, ev), subscribed to OnMouseDown; enabled is what
\* cb.Enabled() returns.
CheckRadio_onMouse(cb, button, enabled) ==
    /\ IF button = MouseButtonLeft /\ enabled
       THEN /\ crState' = toggleState(cb)
            /\ lastCall' = <<"CheckRadio.onMouse", cb, toggleBranch(cb)>>
       ELSE /\ crState' = crState
            /\ lastCall' = <<"CheckRadio.onMouse", cb, "ignored">>
    /\ ret' = "none"
    /\ UNCHANGED <<crGroups, rgMembers, rgDeselectingAllowed>>
    /\ UNCHANGED <<mouseVars, toggleVars, tabVars, layoutVars>>

\* CheckRadio.onKey(evname, ev), subscribed to OnKeyDown.
CheckRadio_onKey(cb, key) ==
    /\ IF key = KeyEnter
       THEN /\ crState' = toggleState(cb)
            /\ lastCall' = <<"CheckRadio.onKey", cb, toggleBranch(cb)>>
       ELSE /\ crState' = crState
            /\ lastCall' = <<"CheckRadio.onKey", cb, "ignored">>
    /\ ret' = "none"
    /\ UNCHANGED <<crGroups, rgMembers, rgDeselectingAllowed>>
    /\ UNCHANGED <<mouseVars, toggleVars, tabVars, layoutVars>>

NextRadio ==
    \/ \E rg \in RadioGroups, cb \in CheckRadios : RadioGroup_Add(rg, cb)
    \/ \E rg \in RadioGroups, cb \in CheckRadios : RadioGroup_Remove(rg, cb)
    \/ \E cb \in CheckRadios, state \in BOOLEAN : SetValue(cb, state)
    \/ \E cb \in CheckRadios, button \in {MouseButtonLeft, MouseButtonRight}, enabled \in BOOLEAN :
          CheckRadio_onMouse(cb, button, enabled)
    \/ \E cb \in CheckRadios, key \in Keys : CheckRadio_onKey(cb, key)

\* Check boxes, radio buttons and radio groups under every sequence of calls
\* and events.
SpecRadio == InitWidgets /\ [][NextRadio]_vars

----
\* gui.TabBar and gui.Tab

\* The positions passed to the tab bar's methods: valid and invalid ones.
Positions == (0 - 1)..MaxTabs

\* The tab bar: its list of tabs, the selected flag of each tab and its
\* field selected.
tabBar == [tabs |-> tabs, selected |-> tabSelected, tbSelected |-> tbSelected]

\* newTab(text, tb, styles): a tab that is not in the bar.
newTab(tb) == CHOOSE t \in TabIds : t \notin Range(tb.tabs) /\ \A u \in 1..(t - 1) : u \in Range(tb.tabs)

\* TabBar.TabCount()
TabCount(tb) == Len(tb.tabs)

\* TabBar.TabPosition(tab)
TabPosition(tb, tab) ==
    IF tab \in Range(tb.tabs)
    THEN (CHOOSE i \in DOMAIN tb.tabs : tb.tabs[i] = tab) - 1
    ELSE 0 - 1

\* The tab bar after InsertTab(text, pos) with a valid pos.
insertTab(tb, pos) ==
    [tb EXCEPT !.tabs = SubSeq(@, 1, pos) \o <<newTab(tb)>> \o SubSeq(@, pos + 1, Len(@)),
               !.selected[newTab(tb)] = FALSE]

\* The tab bar after SetSelected(pos) with a valid pos.
setSelected(tb, pos) ==
    [tb EXCEPT !.selected = [t \in TabIds |->
                                IF t \in Range(tb.tabs) THEN t = tb.tabs[pos + 1] ELSE @[t]],
               !.tbSelected = pos]

\* The tab bar after RemoveTab(pos) with a valid pos, as the code has it:
\* the field selected is compared with pos and is not assigned.
removeTab(tb, pos) ==
    LET rest == SubSeq(tb.tabs, 1, pos) \o SubSeq(tb.tabs, pos + 2, Len(tb.tabs))
        gone == [tb.selected EXCEPT ![tb.tabs[pos + 1]] = FALSE]
    IN  [tabs |-> rest,
         selected |-> IF tb.tbSelected # pos THEN gone
                      ELSE IF Len(rest) > pos THEN [gone EXCEPT ![rest[pos + 1]] = TRUE]
                      ELSE IF pos > 0 THEN [gone EXCEPT ![rest[pos]] = TRUE]
                      ELSE gone,
         tbSelected |-> tb.tbSelected]

\* The tab bar after MoveTab(src, dest) with valid positions: the two tabs
\* change places.
moveTab(tb, src, dest) ==
    [tb EXCEPT !.tabs = [@ EXCEPT ![dest + 1] = tb.tabs[src + 1],
                                  ![src + 1] = tb.tabs[dest + 1]]]

\* The variables take the tab bar's fields.
TabBarBecomes(tb) ==
    /\ tabs' = tb.tabs
    /\ tabSelected' = tb.selected
    /\ tbSelected' = tb.tbSelected

\* TabBar.InsertTab(text, pos)
InsertTab(pos) ==
    /\ IF pos < 0 \/ pos > Len(tabs)
       THEN ret' = "nil" /\ UNCHANGED tabVars
       ELSE /\ Len(tabs) < MaxTabs
            /\ TabBarBecomes(insertTab(tabBar, pos))
            /\ ret' = "tab"
    /\ lastCall' = <<"InsertTab", pos, "">>
    /\ UNCHANGED <<mouseVars, toggleVars, radioVars, layoutVars>>

\* TabBar.AddTab(text)
AddTab ==
    /\ Len(tabs) < MaxTabs
    /\ TabBarBecomes(setSelected(insertTab(tabBar, Len(tabs)), Len(tabs)))
    /\ ret' = "tab"
    /\ lastCall' = <<"AddTab", "", "">>
    /\ UNCHANGED <<mouseVars, toggleVars, radioVars, layoutVars>>

\* TabBar.RemoveTab(pos)
RemoveTab(pos) ==
    /\ IF pos < 0 \/ pos >= Len(tabs)
       THEN ret' = "error" /\ UNCHANGED tabVars
       ELSE TabBarBecomes(removeTab(tabBar, pos)) /\ ret' = "no error"
    /\ lastCall' = <<"RemoveTab", pos, "">>
    /\ UNCHANGED <<mouseVars, toggleVars, radioVars, layoutVars>>

\* TabBar.MoveTab(src, dest)
MoveTab(src, dest) ==
    /\ IF src < 0 \/ src >= Len(tabs) \/ dest < 0 \/ dest >= Len(tabs)
       THEN ret' = "error" /\ UNCHANGED tabVars
       ELSE /\ ret' = "no error"
            /\ IF src = dest THEN UNCHANGED tabVars
                             ELSE TabBarBecomes(moveTab(tabBar, src, dest))
    /\ lastCall' = <<"MoveTab", src, dest>>
    /\ UNCHANGED <<mouseVars, toggleVars, radioVars, layoutVars>>

\* TabBar.TabAt(pos)
TabAt_OffByOne(pos) ==
    /\ ret' = IF pos < 0 \/ pos > Len(tabs) THEN "nil" ELSE "tab"
    /\ lastCall' = <<"TabAt", pos, "">>
    /\ UNCHANGED tabVars
    /\ UNCHANGED <<mouseVars, toggleVars, radioVars, layoutVars>>

TabAt(pos) ==
    /\ ret' = IF pos < 0 \/ pos >= Len(tabs) THEN "nil" ELSE "tab"
    /\ lastCall' = <<"TabAt", pos, "">>
    /\ UNCHANGED tabVars
    /\ UNCHANGED <<mouseVars, toggleVars, radioVars, layoutVars>>

\* TabBar.SetSelected(pos)
SetSelected(pos) ==
    /\ IF pos < 0 \/ pos >= Len(tabs)
       THEN ret' = "nil" /\ UNCHANGED tabVars
       ELSE TabBarBecomes(setSelected(tabBar, pos)) /\ ret' = "tab"
    /\ lastCall' = <<"SetSelected", pos, "">>
    /\ UNCHANGED <<mouseVars, toggleVars, radioVars, layoutVars>>

\* Tab.onMouseHeader(evname, ev) of a tab of the bar, for an OnMouseDown event.
onMouseHeader(tab, button) ==
    /\ tab \in Range(tabs)
    /\ IF button = MouseButtonLeft
       THEN TabBarBecomes(setSelected(tabBar, TabPosition(tabBar, tab)))
       ELSE UNCHANGED tabVars
    /\ ret' = "none"
    /\ lastCall' = <<"onMouseHeader", tab, button>>
    /\ UNCHANGED <<mouseVars, toggleVars, radioVars, layoutVars>>

\* Tab.onMouseIcon(evname, ev) of a tab of the bar, for an OnMouseDown event.
onMouseIcon(tab) ==
    /\ tab \in Range(tabs)
    /\ TabBarBecomes(removeTab(tabBar, TabPosition(tabBar, tab)))
    /\ ret' = "none"
    /\ lastCall' = <<"onMouseIcon", tab, "">>
    /\ UNCHANGED <<mouseVars, toggleVars, radioVars, layoutVars>>

NextTabBar ==
    \/ AddTab
    \/ \E pos \in Positions : InsertTab(pos)
    \/ \E pos \in Positions : RemoveTab(pos)
    \/ \E src \in Positions, dest \in Positions : MoveTab(src, dest)
    \/ \E pos \in Positions : TabAt(pos)
    \/ \E pos \in Positions : SetSelected(pos)
    \/ \E tab \in TabIds, button \in {MouseButtonLeft, MouseButtonRight} : onMouseHeader(tab, button)
    \/ \E tab \in TabIds : onMouseIcon(tab)

\* The tab bar under every sequence of calls and header events.
SpecTabBar == InitWidgets /\ [][NextTabBar]_vars

----
\* gui.Splitter

\* Splitter._adjustToTopLeftConstraints(pos, l, sl)
adjustToTopLeftConstraints(s, pos, l, sl) ==
    LET min == Hundredths(s.min0)
        max == Hundredths(s.max0)
    IN  IF s.splitType = Relative
        THEN LET p == l * pos - Hundredths(sl) \div 2
             IN  IF p < min THEN (min + Hundredths(sl) \div 2) \div l
                 ELSE IF p > max THEN (max + Hundredths(sl) \div 2) \div l
                 ELSE pos
        ELSE IF pos < min THEN min
             ELSE IF pos > max THEN max
             ELSE pos

\* Splitter._adjustToBottomRightConstraints(pos, l, sl)
adjustToBottomRightConstraints(s, pos, l, sl) ==
    LET min == Hundredths(s.min1)
        max == Hundredths(s.max1)
    IN  IF s.splitType = Relative
        THEN LET p == l * pos + Hundredths(sl) \div 2
             IN  IF p > Hundredths(l) - min
                 THEN (Hundredths(l) - min - Hundredths(sl) \div 2) \div l
                 ELSE IF p < Hundredths(l) - max
                      THEN (Hundredths(l) - max - Hundredths(sl) \div 2) \div l
                      ELSE pos
        ELSE IF pos > Hundredths(l) - min THEN Hundredths(l) - min
             ELSE IF pos < Hundredths(l) - max THEN Hundredths(l) - max
             ELSE pos

\* Splitter.pos after setSplit(pos).
setSplit(s, pos) ==
    LET l == ContentWidth
        sl == SpacerSize
        nonNegative == IF pos < 0 THEN 0 ELSE pos
        clamped == IF s.splitType = Relative /\ nonNegative > Scale THEN Scale ELSE nonNegative
        p == adjustToTopLeftConstraints(s, clamped, l, sl)
        flag == p # clamped
        q == adjustToBottomRightConstraints(s, p, l, sl)
    IN  IF l = 0 THEN clamped
        ELSE IF p # q
             THEN IF flag THEN s.pos
                  ELSE IF adjustToTopLeftConstraints(s, q, l, sl) # q THEN s.pos
                       ELSE q
             ELSE q

\* A call on the splitter returns nothing and leaves the other widgets alone.
SplitterCall(call) ==
    /\ ret' = "none"
    /\ lastCall' = <<call, "", "">>
    /\ UNCHANGED <<mouseVars, toggleVars, radioVars, tabVars, dock>>

\* Splitter.SetSplit(pos)
SetSplit(pos) ==
    /\ splitter' = [splitter EXCEPT !.pos = setSplit(splitter, pos)]
    /\ SplitterCall("SetSplit")

\* Splitter.SetSplitType(splitType)
SetSplitType(splitType) ==
    /\ splitter' = [splitter EXCEPT !.splitType = splitType]
    /\ SplitterCall("SetSplitType")

\* The limits of one panel after SetSplitMin(min): a negative min is 0, a
\* min above the max exchanges the two.
withMin(lo, hi, min) ==
    IF min < 0 THEN <<0, hi>>
    ELSE IF min > hi THEN <<hi, min>>
    ELSE <<min, hi>>

\* The limits of one panel after SetSplitMax(max).
withMax(lo, hi, max) ==
    IF max < 0 THEN <<lo, 0>>
    ELSE IF max < lo THEN <<max, lo>>
    ELSE <<lo, max>>

\* Splitter.SetSplitMin0(min)
SetSplitMin0(min) ==
    /\ LET lim == withMin(splitter.min0, splitter.max0, min)
           s == [splitter EXCEPT !.min0 = lim[1], !.max0 = lim[2]]
       IN  splitter' = [s EXCEPT !.pos = setSplit(s, s.pos)]
    /\ SplitterCall("SetSplitMin0")

\* Splitter.SetSplitMax0(max)
SetSplitMax0(max) ==
    /\ LET lim == withMax(splitter.min0, splitter.max0, max)
           s == [splitter EXCEPT !.min0 = lim[1], !.max0 = lim[2]]
       IN  splitter' = [s EXCEPT !.pos = setSplit(s, s.pos)]
    /\ SplitterCall("SetSplitMax0")

\* Splitter.SetSplitMin1(min)
SetSplitMin1(min) ==
    /\ LET lim == withMin(splitter.min1, splitter.max1, min)
           s == [splitter EXCEPT !.min1 = lim[1], !.max1 = lim[2]]
       IN  splitter' = [s EXCEPT !.pos = setSplit(s, s.pos)]
    /\ SplitterCall("SetSplitMin1")

\* Splitter.SetSplitMax1(max)
SetSplitMax1(max) ==
    /\ LET lim == withMax(splitter.min1, splitter.max1, max)
           s == [splitter EXCEPT !.min1 = lim[1], !.max1 = lim[2]]
       IN  splitter' = [s EXCEPT !.pos = setSplit(s, s.pos)]
    /\ SplitterCall("SetSplitMax1")

\* Splitter.Split()
Split == splitter.pos

\* Splitter.onMouse(evname, ev) of a horizontal splitter.
Splitter_onMouse(evname, button, xpos) ==
    /\ evname \in {OnMouseDown, OnMouseUp}
    /\ splitter' =
          IF evname = OnMouseDown
          THEN IF button = MouseButtonLeft
               THEN [splitter EXCEPT !.leftPressed = TRUE, !.posLast = xpos]
               ELSE IF button = MouseButtonRight
                    THEN [splitter EXCEPT !.rightPressed = TRUE,
                                          !.pos = setSplit(splitter, Hundredths(splitter.min0))]
                    ELSE splitter
          ELSE IF button = MouseButtonLeft
               THEN [splitter EXCEPT !.leftPressed = FALSE]
               ELSE IF button = MouseButtonRight
                    THEN [splitter EXCEPT !.rightPressed = FALSE]
                    ELSE splitter
    /\ SplitterCall("Splitter.onMouse")

OnCursor == "OnCursor"

\* Splitter.onCursor(evname, ev) of a horizontal splitter.
Splitter_onCursor(evname, xpos) ==
    /\ evname \in {OnCursorEnter, OnCursorLeave, OnCursor}
    /\ LET delta == xpos - splitter.posLast
           pos == IF splitter.splitType = Relative
                  THEN splitter.pos + Hundredths(delta) \div ContentWidth
                  ELSE IF splitter.splitType = Absolute
                       THEN splitter.pos + Hundredths(delta)
                       ELSE splitter.pos - Hundredths(delta)
       IN  splitter' =
             IF evname = OnCursorEnter THEN [splitter EXCEPT !.mouseOver = TRUE]
             ELSE IF evname = OnCursorLeave THEN [splitter EXCEPT !.mouseOver = FALSE]
             ELSE IF ~splitter.leftPressed THEN splitter
             ELSE [splitter EXCEPT !.posLast = xpos, !.pos = setSplit(splitter, pos)]
    /\ SplitterCall("Splitter.onCursor")

\* The handler of OnBeforeRender: s.SetSplit(s.Split()).
OnBeforeRender ==
    /\ splitter' = [splitter EXCEPT !.pos = setSplit(splitter, Split)]
    /\ SplitterCall("OnBeforeRender")

\* Positions passed to SetSplit: below 0, inside and above 1.
SplitInputs == {0 - 50, 25, 150}

\* Numbers of pixels passed as limits of the panels.
Limits == {20}

\* Positions of the cursor.
CursorPositions == {40, 60}

NextSplitter ==
    \/ \E pos \in SplitInputs : SetSplit(pos)
    \/ \E t \in {Relative, Absolute, ReverseAbsolute} : SetSplitType(t)
    \/ \E n \in Limits : SetSplitMin0(n)
    \/ \E n \in Limits : SetSplitMax0(n)
    \/ \E n \in Limits : SetSplitMin1(n)
    \/ \E n \in Limits : SetSplitMax1(n)
    \/ \E evname \in {OnMouseDown, OnMouseUp}, button \in {MouseButtonLeft, MouseButtonRight},
          xpos \in CursorPositions : Splitter_onMouse(evname, button, xpos)
    \/ \E evname \in {OnCursorEnter, OnCursorLeave, OnCursor}, xpos \in CursorPositions :
          Splitter_onCursor(evname, xpos)
    \/ OnBeforeRender

\* The splitter under every sequence of calls and events.
SpecSplitter == InitWidgets /\ [][NextSplitter]_vars

----
\* gui.DockLayout

\* contains(edges, edge)
contains(edges, edge) == \E i \in DOMAIN edges : edges[i] = edge

\* The incumbents after Recalc has appended the edges that are missing from
\* them, in the order DockTop, DockBottom, DockLeft, DockRight.
withMissing(incumbents) ==
    LET t == IF contains(incumbents, DockTop) THEN incumbents ELSE Append(incumbents, DockTop)
        b == IF contains(t, DockBottom) THEN t ELSE Append(t, DockBottom)
        l == IF contains(b, DockLeft) THEN b ELSE Append(b, DockLeft)
    IN  IF contains(l, DockRight) THEN l ELSE Append(l, DockRight)

\* The body of Recalc's inner loop for one child and one incumbent. a holds
\* the panel's children in a.d and the rectangle that is left in x, y, w, h.
layChild(a, c, incumbent) ==
    LET d == a.d
        once == [d EXCEPT !.laid[c] = @ + 1]
    IN  IF d.edge[c] = NoParams \/ d.edge[c] # incumbent THEN a
        ELSE IF incumbent = DockTop
        THEN [a EXCEPT !.d = [once EXCEPT !.x[c] = a.x, !.y[c] = a.y, !.width[c] = a.w],
                       !.y = a.y + d.height[c],
                       !.h = a.h - d.height[c]]
        ELSE IF incumbent = DockBottom
        THEN [a EXCEPT !.d = [once EXCEPT !.x[c] = a.x, !.y[c] = a.y + (a.h - d.height[c]),
                                          !.width[c] = a.w],
                       !.h = a.h - d.height[c]]
        ELSE IF incumbent = DockLeft
        THEN [a EXCEPT !.d = [once EXCEPT !.x[c] = a.x, !.y[c] = a.y, !.height[c] = a.h],
                       !.x = a.x + d.width[c],
                       !.w = a.w - d.width[c]]
        ELSE IF incumbent = DockRight
        THEN [a EXCEPT !.d = [once EXCEPT !.x[c] = a.x + (a.w - d.width[c]), !.y[c] = a.y,
                                          !.height[c] = a.h],
                       !.w = a.w - d.width[c]]
        ELSE a

RECURSIVE layChildren(_, _, _)
\* Recalc's inner loop over pan.Children(), from the child at index i on.
layChildren(a, incumbent, i) ==
    IF i > Len(DockChildren) THEN a
    ELSE layChildren(layChild(a, DockChildren[i], incumbent), incumbent, i + 1)

RECURSIVE layIncumbents(_, _, _)
\* Recalc's outer loop over dl.incumbents, from index k on: DockCenter is
\* skipped.
layIncumbents(a, incumbents, k) ==
    IF k > Len(incumbents) THEN a
    ELSE IF incumbents[k] = DockCenter THEN layIncumbents(a, incumbents, k + 1)
    ELSE layIncumbents(layChildren(a, incumbents[k], 1), incumbents, k + 1)

\* The children docked to DockCenter, as indexes of pan.Children().
centerChildren(d) == {i \in DOMAIN DockChildren : d.edge[DockChildren[i]] = DockCenter}

\* Recalc's last loop: the first child docked to DockCenter gets the
\* rectangle that is left.
layCenter(a) ==
    LET d == a.d
        found == centerChildren(d)
        c == DockChildren[CHOOSE i \in found : \A j \in found : i <= j]
    IN  IF found = {} THEN d
        ELSE [d EXCEPT !.x[c] = a.x, !.y[c] = a.y, !.width[c] = a.w, !.height[c] = a.h,
                       !.laid[c] = @ + 1]

\* A call on the panel's layout returns nothing and leaves the other widgets
\* alone.
DockCall(call) ==
    /\ ret' = "none"
    /\ lastCall' = <<call, "", "">>
    /\ UNCHANGED <<mouseVars, toggleVars, radioVars, tabVars, splitter>>

\* NewDockLayout(incumbents...) set as the layout of a new panel whose
\* children have no layout parameters yet.
NewDockLayout(incumbents) ==
    /\ dock' = [NoDockLayout EXCEPT !.incumbents = incumbents]
    /\ DockCall("NewDockLayout")

\* child.SetLayoutParams(&DockLayoutParams{edge})
SetLayoutParams(child, edge) ==
    /\ dock' = [dock EXCEPT !.edge[child] = edge,
                            !.laid = [c \in Range(DockChildren) |-> 0]]
    /\ DockCall("SetLayoutParams")

\* DockLayout.Recalc(ipan). laid counts how often this call has laid each
\* child out, recalcs the calls on this panel.
Recalc ==
    /\ dock.recalcs < MaxRecalcs
    /\ LET incumbents == withMissing(dock.incumbents)
           fresh == [dock EXCEPT !.incumbents = incumbents,
                                 !.recalcs = @ + 1,
                                 !.laid = [c \in Range(DockChildren) |-> 0]]
           start == [d |-> fresh, x |-> 0, y |-> 0, w |-> PanelWidth, h |-> PanelHeight]
       IN  dock' = layCenter(layIncumbents(start, incumbents, 1))
    /\ DockCall("Recalc")

\* The incumbents passed to NewDockLayout: none, a repeated edge, DockCenter
\* among them, and all four edges.
IncumbentLists ==
    {<<>>, <<DockTop, DockTop>>, <<DockCenter, DockLeft>>,
     <<DockLeft, DockTop, DockRight, DockBottom>>}

NextDock ==
    \/ \E incumbents \in IncumbentLists : NewDockLayout(incumbents)
    \/ \E child \in Range(DockChildren), edge \in DockTop..DockCenter : SetLayoutParams(child, edge)
    \/ Recalc

\* A panel with a dock layout under every sequence of calls.
SpecDock == InitWidgets /\ [][NextDock]_vars

----
\* Claims

\* ------------------------------------------------------------------ claims
\* lastClick + DoubleClickDuration of b is not before the current clock.
Within(b) == ~(states[b].lastClick + DoubleClickDuration < clock)

\* C1: after any sequence of down and up events the clickCount of every
\* tracked button is one of -2, -1, 0, 1, 2.
C1_PhaseRange ==
    \A b \in TrackedButtons : states[b].clickCount \in {-2, -1, 0, 1, 2}

C1_Witness ==
    /\ states[MouseButtonLeft].clickCount = -2
    /\ states[MouseButtonRight].clickCount = 2
    /\ states[MouseButtonMiddle].clickCount = -1
    /\ lastRow = "alreadyDown"

\* C2: a down on a button in phase -1 whose lastClick + window is not before
\* now (boundary included) sets the phase to 2 and keeps lastClick; Pressed
\* and DoubleClicked are then both true for that button.
C2_DownWithinWindow ==
    [][\A b \in TrackedButtons :
        (onMouseDown(b) /\ states[b].clickCount = -1 /\ Within(b))
        => /\ states'[b].clickCount = 2
           /\ states'[b].lastClick = states[b].lastClick
           /\ Pressed(b)'
           /\ DoubleClicked(b)']_vars

C2_Witness ==
    /\ lastRow = "boundary"
    /\ lastDown = MouseButtonLeft
    /\ lastEvent[MouseButtonLeft] = "down"
    /\ DoubleClickDuration = DefaultDoubleClickDuration
    /\ states[MouseButtonLeft].clickCount = 2
    /\ clock = states[MouseButtonLeft].lastClick + DoubleClickDuration
    /\ LeftPressed /\ LeftDoubleClicked

\* C3: a down on a button in phase -1 whose lastClick + window is strictly
\* before now is a fresh single click: phase 1, lastClick = now, and
\* DoubleClicked is false for that button.
C3_DownAfterWindow ==
    [][\A b \in TrackedButtons :
        (onMouseDown(b) /\ states[b].clickCount = -1 /\ ~Within(b))
        => /\ states'[b].clickCount = 1
           /\ states'[b].lastClick = clock
           /\ ~DoubleClicked(b)']_vars

C3_Witness ==
    /\ lastRow = "expired"
    /\ lastDown = MouseButtonLeft
    /\ lastEvent[MouseButtonLeft] = "down"
    /\ DoubleClickDuration = DefaultDoubleClickDuration
    /\ states[MouseButtonLeft] = mouseButtonState(1, clock)
    /\ ~LeftDoubleClicked

\* C4: a down on a button in phase 0 sets the phase to 1 and lastClick to
\* now, whatever the time elapsed since construction.
C4_DownFromIdle ==
    [][\A b \in TrackedButtons :
        (onMouseDown(b) /\ states[b].clickCount = 0)
        => states'[b] = mouseButtonState(1, clock)]_vars

C4_Witness ==
    /\ lastRow = "idle"
    /\ lastDown = MouseButtonRight
    /\ lastEvent[MouseButtonRight] = "down"
    /\ DoubleClickDuration = DefaultDoubleClickDuration
    /\ clock > DoubleClickDuration
    /\ states[MouseButtonRight] = mouseButtonState(1, clock)

\* C5: a down on a button in phase -2 always sets the phase to 1 and
\* lastClick to now, however short the time since the previous down.
C5_DownAfterDouble ==
    [][\A b \in TrackedButtons :
        (onMouseDown(b) /\ states[b].clickCount = -2)
        => /\ states'[b] = mouseButtonState(1, clock)
           /\ ~DoubleClicked(b)']_vars

C5_Witness ==
    /\ lastRow = "afterDouble"
    /\ lastDown = MouseButtonLeft
    /\ lastEvent[MouseButtonLeft] = "down"
    /\ DoubleClickDuration = DefaultDoubleClickDuration
    /\ clock = 0
    /\ states[MouseButtonLeft] = mouseButtonState(1, 0)

\* C6: a down on a button that is already down (phase 1 or 2) sets the phase
\* to 1 and lastClick to now; two downs without an up never give phase 2.
C6_DownWhileDown ==
    [][\A b \in TrackedButtons :
        (onMouseDown(b) /\ states[b].clickCount > 0)
        => states'[b] = mouseButtonState(1, clock)]_vars

C6_Witness ==
    /\ lastRow = "alreadyDown"
    /\ lastDown = MouseButtonMiddle
    /\ lastEvent[MouseButtonMiddle] = "down"
    /\ DoubleClickDuration = DefaultDoubleClickDuration
    /\ clock = Tick
    /\ states[MouseButtonMiddle] = mouseButtonState(1, Tick)
    /\ \A b \in TrackedButtons \ {MouseButtonMiddle} : lastEvent[b] = "none"

\* C7: every down event sets lastButton to the event's button, up events
\* never change lastButton, and so lastButton is the button of the most
\* recently processed down event.
C7_LastButton ==
    [][/\ \A b \in MouseButtons : onMouseDown(b) => lastButton' = b
       /\ \A b \in MouseButtons : onMouseUp(b) => lastButton' = lastButton
       /\ lastDown' # NoButton => lastButton' = lastDown']_vars

C7_Witness ==
    /\ lastDown = MouseButtonLeft
    /\ lastButton = MouseButtonLeft
    /\ lastRow = "idle"
    /\ lastEvent[MouseButtonRight] = "up"
    /\ states[MouseButtonRight].clickCount = -1
    /\ states[MouseButtonLeft].clickCount = 1

\* C8: an up on a tracked button negates a positive phase and is otherwise a
\* no-op: phase, lastClick and lastButton stay unchanged, nothing fails.
C8_UpNegatesOrNoOp ==
    [][\A b \in TrackedButtons :
        onMouseUp(b)
        => /\ states'[b].lastClick = states[b].lastClick
           /\ states'[b].clickCount =
                 IF states[b].clickCount \in {1, 2}
                 THEN 0 - states[b].clickCount
                 ELSE states[b].clickCount
           /\ \A o \in TrackedButtons \ {b} : states'[o] = states[o]
           /\ lastButton' = lastButton
           /\ DoubleClickDuration' = DoubleClickDuration
           /\ panicked' = FALSE]_vars

C8_Witness ==
    /\ lastEvent[MouseButtonLeft] = "up"
    /\ states[MouseButtonLeft].clickCount = 0
    /\ lastEvent[MouseButtonRight] = "up"
    /\ states[MouseButtonRight].clickCount = -2
    /\ lastEvent[MouseButtonMiddle] = "up"
    /\ states[MouseButtonMiddle].clickCount = -1
    /\ ~panicked

\* C9: for every tracked button b, DoubleClicked(b) is true exactly when b is
\* lastButton and its phase is 2 or -2; phases 1, -1 and 0 never report a
\* double-click.
C9_DoubleClickedIff ==
    \A b \in TrackedButtons :
        DoubleClicked(b) <=> (b = lastButton /\ states[b].clickCount \in {2, -2})

C9_Witness ==
    /\ LeftDoubleClicked
    /\ states[MouseButtonLeft].clickCount = -2
    /\ states[MouseButtonRight].clickCount = 2
    /\ ~RightDoubleClicked
    /\ states[MouseButtonMiddle].clickCount = 1

\* C10: for every tracked button b, Pressed(b) is true exactly when its phase
\* is greater than 0, that is when the last event processed for b was a
\* down; several buttons may be pressed at once.
C10_PressedIff ==
    \A b \in TrackedButtons :
        /\ Pressed(b) <=> states[b].clickCount > 0
        /\ Pressed(b) <=> lastEvent[b] = "down"
        /\ (b = MouseButtonLeft) => (LeftPressed <=> lastEvent[b] = "down")
        /\ (b = MouseButtonRight) => (RightPressed <=> lastEvent[b] = "down")
        /\ (b = MouseButtonMiddle) => (MiddlePressed <=> lastEvent[b] = "down")

C10_Witness ==
    /\ LeftPressed /\ Pressed(MouseButtonLeft)
    /\ RightPressed /\ Pressed(MouseButtonRight)
    /\ states[MouseButtonRight].clickCount = 2
    /\ ~MiddlePressed /\ ~Pressed(MouseButtonMiddle)
    /\ lastEvent[MouseButtonMiddle] = "up"

\* C11: Pressed(b) for a button identity b outside the tracked set returns
\* false and does not fail, in every state of the tracker.
C11_PressedUntrackedFalse ==
    [][\A b \in MouseButtons \ TrackedButtons :
        PressedCall(b) => (PressedOutcome(b) = "false" /\ ~panicked')]_vars

\* C12: the down and up handlers complete without failing for every button
\* identity, tracked or untracked, and an up event for an untracked identity
\* changes no tracker state.
C12_HandlersTotal ==
    [][\A b \in MouseButtons :
        /\ (onMouseDown(b) \/ onMouseUp(b)) => ~panicked'
        /\ (onMouseUp(b) /\ b \notin TrackedButtons)
           => UNCHANGED <<lastButton, DoubleClickDuration, states>>]_vars

\* C13: Dispose unregisters both handlers with the identity token used by
\* NewMouseState, so that after Dispose the registry holds no handler of the
\* tracker and later down and up events no longer change the tracker's state.
C13_DisposeUnsubscribes ==
    [][/\ Dispose => subscriptions' = {}
       /\ disposed => UNCHANGED <<lastButton, states>>]_vars

\* C14: once a double-click on A has set phase 2, DoubleClicked(A) stays true
\* through the following up (phase -2, Pressed(A) false) and through queries
\* and elapsed time, until the next down event on any button, which makes
\* DoubleClicked(A) false.
C14_DoubleClickHeldUntilDown ==
    [][\A a \in TrackedButtons :
        DoubleClicked(a)
        => /\ IF \E b \in MouseButtons : onMouseDown(b)
              THEN ~DoubleClicked(a)'
              ELSE DoubleClicked(a)'
           /\ (onMouseUp(a) /\ states[a].clickCount = 2)
              => (states'[a].clickCount = -2 /\ ~Pressed(a)')]_vars

C14_Witness ==
    /\ LeftDoubleClicked
    /\ ~LeftPressed
    /\ states[MouseButtonLeft].clickCount = -2
    /\ lastEvent[MouseButtonLeft] = "up"
    /\ lastEvent[MouseButtonRight] = "up"
    /\ DoubleClickDuration = DefaultDoubleClickDuration
    /\ clock > states[MouseButtonLeft].lastClick + DoubleClickDuration

\* C15: after a down on button B, DoubleClicked(A) is false for every button
\* A other than B, whatever A's phase, and it stays false until a down on A
\* moves A from phase -1 to phase 2.
C15_OtherButtonsNotDoubleClicked ==
    [][/\ \A b \in MouseButtons :
            onMouseDown(b) => \A a \in TrackedButtons \ {b} : ~DoubleClicked(a)'
       /\ \A a \in TrackedButtons :
            (~DoubleClicked(a) /\ DoubleClicked(a)')
            => /\ onMouseDown(a)
               /\ states[a].clickCount = -1
               /\ states'[a].clickCount = 2]_vars

C15_Witness ==
    /\ lastDown = MouseButtonRight
    /\ lastButton = MouseButtonRight
    /\ states[MouseButtonLeft].clickCount = -2
    /\ ~LeftDoubleClicked
    /\ states[MouseButtonMiddle].clickCount = 2
    /\ ~MiddleDoubleClicked
    /\ states[MouseButtonRight].clickCount = 1
    /\ ~RightDoubleClicked

\* C16: down and up events for button B leave the phase and lastClick of
\* every other button unchanged, and a button reaches phase 2 only by its own
\* down from its own phase -1, so single clicks on two different buttons
\* never make DoubleClicked true for either.
C16_ButtonsIndependent ==
    [][/\ \A b \in MouseButtons :
            (onMouseDown(b) \/ onMouseUp(b))
            => \A a \in TrackedButtons \ {b} : states'[a] = states[a]
       /\ \A a \in TrackedButtons :
            (states'[a].clickCount = 2 /\ states[a].clickCount # 2)
            => (onMouseDown(a) /\ states[a].clickCount = -1)]_vars

C16_Witness ==
    /\ lastDown = MouseButtonRight
    /\ lastRow = "idle"
    /\ lastEvent[MouseButtonLeft] = "up"
    /\ lastEvent[MouseButtonRight] = "up"
    /\ lastEvent[MouseButtonMiddle] = "none"
    /\ states[MouseButtonLeft] = mouseButtonState(0 - 1, 0)
    /\ states[MouseButtonRight] = mouseButtonState(0 - 1, Tick)
    /\ DoubleClickDuration = DefaultDoubleClickDuration
    /\ \A b \in TrackedButtons : ~DoubleClicked(b)

\* C17: a freshly constructed tracker has one state per tracked button with
\* phase 0 and lastClick equal to the construction time, a window of 300 ms
\* and both handlers registered; Pressed and DoubleClicked are false for
\* every tracked button until the first down event.
C17_FreshTracker ==
    /\ DOMAIN states = {MouseButtonLeft, MouseButtonRight, MouseButtonMiddle}
    /\ \A b \in DOMAIN states : states[b] = mouseButtonState(0, clock)
    /\ DoubleClickDuration = 300
    /\ Subscribed(OnMouseDown) /\ Subscribed(OnMouseUp)
    /\ [](lastDown = NoButton
          => \A b \in TrackedButtons :
                /\ ~Pressed(b)
                /\ ~DoubleClicked(b)
                /\ states[b].clickCount = 0)

C17_Witness ==
    /\ lastDown = NoButton
    /\ clock = Tick
    /\ \A b \in TrackedButtons : lastEvent[b] = "up" /\ states[b].clickCount = 0
    /\ ~LeftPressed /\ ~LeftDoubleClicked
    /\ ~panicked

\* C18 (as claimed): with a window of zero no down event gives a button
\* phase 2, so no double-click is ever reported.
C18_ZeroWindowNever ==
    [][\A b \in TrackedButtons :
        (DoubleClickDuration = 0 /\ onMouseDown(b))
        => states'[b].clickCount # 2]_vars

\* C18 (amended): with a window of zero a down gives phase 2 exactly when the
\* button is in phase -1 and the down has the same timestamp as lastClick; a
\* down with a later timestamp gives phase 1.
C18_ZeroWindowSameInstantOnly ==
    [][\A b \in TrackedButtons :
        (DoubleClickDuration = 0 /\ onMouseDown(b))
        => /\ states'[b].clickCount = 2
              <=> (states[b].clickCount = -1 /\ clock = states[b].lastClick)
           /\ clock > states[b].lastClick => states'[b] = mouseButtonState(1, clock)]_vars

C18_Witness ==
    /\ DoubleClickDuration = 0
    /\ lastRow = "boundary"
    /\ lastDown = MouseButtonLeft
    /\ lastEvent[MouseButtonLeft] = "down"
    /\ states[MouseButtonLeft] = mouseButtonState(2, clock)
    /\ LeftDoubleClicked

\* C19 (as claimed): with a negative window every down on a button in phase
\* -1 moves it to phase 2.
C19_NegativeWindowAlways ==
    [][\A b \in TrackedButtons :
        (DoubleClickDuration < 0 /\ onMouseDown(b) /\ states[b].clickCount = -1)
        => states'[b].clickCount = 2]_vars

\* C19 (amended): with a negative window every down on a button in phase -1
\* moves it to phase 1 with lastClick = now, so no double-click is reported.
C19_NegativeWindowNever ==
    [][\A b \in TrackedButtons :
        (DoubleClickDuration < 0 /\ onMouseDown(b) /\ states[b].clickCount = -1)
        => (states'[b] = mouseButtonState(1, clock) /\ ~DoubleClicked(b)')]_vars

C19_Witness ==
    /\ DoubleClickDuration < 0
    /\ lastRow = "expired"
    /\ lastDown = MouseButtonLeft
    /\ lastEvent[MouseButtonLeft] = "down"
    /\ clock = 0
    /\ states[MouseButtonLeft] = mouseButtonState(1, 0)
    /\ ~LeftDoubleClicked

\* C20: the tracker has no timer: the passage of time and Pressed queries
\* change no tracker state; a button's record changes only in a down or up
\* event for that button, and a released button in phase -1 leaves it only in
\* a down event for that button.
C20_NoTimer ==
    [][/\ AdvanceClock => UNCHANGED <<states, lastButton, DoubleClickDuration, subscriptions>>
       /\ \A b \in MouseButtons :
            PressedCall(b) => UNCHANGED <<states, lastButton, DoubleClickDuration, subscriptions>>
       /\ \A b \in TrackedButtons :
            /\ states'[b] # states[b] => (onMouseDown(b) \/ onMouseUp(b))
            /\ (states[b].clickCount = -1 /\ states'[b] # states[b]) => onMouseDown(b)]_vars

C20_Witness ==
    /\ DoubleClickDuration = DefaultDoubleClickDuration
    /\ states[MouseButtonLeft].clickCount = -1
    /\ clock > states[MouseButtonLeft].lastClick + DoubleClickDuration
    /\ states[MouseButtonRight].clickCount = 1
    /\ clock > states[MouseButtonRight].lastClick + DoubleClickDuration
    /\ states[MouseButtonMiddle].clickCount = 2
    /\ clock > states[MouseButtonMiddle].lastClick + DoubleClickDuration

\* C21: the double-click window runs from the first down to the second down.
\* A down that produces phase 1 stamps the button with the time of that down;
\* until the button's next down the stamp stays what it is and the phase stays
\* 1 or -1, whatever the time of the release; and the next down on the released
\* button produces phase 2 exactly when the time since the stamp is at most the
\* window.
C21_WindowFromFirstDown ==
    [][\A b \in TrackedButtons :
          /\ (onMouseDown(b) /\ states'[b].clickCount = 1)
                => states'[b].lastClick = clock
          /\ (states[b].clickCount \in {1, 0 - 1} /\ ~onMouseDown(b))
                => /\ states'[b].lastClick = states[b].lastClick
                   /\ states'[b].clickCount \in {1, 0 - 1}
          /\ (onMouseDown(b) /\ states[b].clickCount = 0 - 1)
                => (states'[b].clickCount = 2
                      <=> clock - states[b].lastClick <= DoubleClickDuration)]_vars

\* The middle button went down at 0, was held and released, and went down
\* again one tick after the default window: no double-click.
C21_Witness ==
    /\ lastRow = "expired"
    /\ lastDown = MouseButtonMiddle
    /\ lastEvent[MouseButtonMiddle] = "down"
    /\ DoubleClickDuration = DefaultDoubleClickDuration
    /\ clock = DefaultDoubleClickDuration + Tick
    /\ states[MouseButtonMiddle] = mouseButtonState(1, clock)
    /\ ~MiddleDoubleClicked

\* The down and up handlers of both trackers are registered, as four
\* separate subscriptions.
BothSubscribed ==
    /\ \A evname \in {OnMouseUp, OnMouseDown} :
          /\ SubscribedAs(evname, NewMouseStateToken)
          /\ SubscribedAs(evname, SecondToken)
    /\ Cardinality(subscriptions) = 4

\* C22: once a second tracker is constructed on the same window, the two
\* trackers are registered under distinct tokens, four subscriptions in all,
\* and stay so when either is disposed; every down and up event of a tracked
\* button is handled by both, each moving from its own previous state.
C22_TwoTrackers ==
    /\ [](tracker2.constructed => BothSubscribed)
    /\ [][tracker2.constructed =>
            \A b \in TrackedButtons :
              /\ MouseDownEvent(b) =>
                    /\ states'[b] = downState(states[b], clock, DoubleClickDuration)
                    /\ tracker2'.states[b] =
                          downState(tracker2.states[b], clock, tracker2.DoubleClickDuration)
              /\ MouseUpEvent(b) =>
                    /\ states'[b] = upState(states[b])
                    /\ tracker2'.states[b] = upState(tracker2.states[b])
              /\ (Dispose \/ DisposeSecond) => BothSubscribed']_vars

\* The second tracker was constructed after the first left click: the next
\* left down is a double-click for the first tracker and a first click for
\* the second, with one of the two disposed.
C22_Witness ==
    /\ tracker2.constructed
    /\ disposed
    /\ ~tracker2.disposed
    /\ lastEvent[MouseButtonLeft] = "down"
    /\ states[MouseButtonLeft].clickCount = 2
    /\ tracker2.states[MouseButtonLeft].clickCount = 1
    /\ BothSubscribed

\* The members of a toggle group that are selected.
SelectedMembers(tg) == {b \in Range(tgMembers[tg]) : btnSelected[b]}

\* C23: in every toggle group at most one member button is selected, after
\* any sequence of Add, Remove, Press, mouse, Enter key and cursor events.
C23_AtMostOneSelected ==
    \A tg \in ToggleGroups : Cardinality(SelectedMembers(tg)) <= 1

\* C25: Add(b) returns true exactly when b is a toggle button that is not
\* yet a member, and then b becomes a member and the group becomes one of
\* b's groups; otherwise it returns false and members and group lists stay
\* as they are. No group ever holds a non-toggle button or a button twice.
C25_AddContract ==
    /\ [](\A tg \in ToggleGroups :
            /\ \A b \in Range(tgMembers[tg]) : toggle(b)
            /\ Cardinality(Range(tgMembers[tg])) = Len(tgMembers[tg]))
    /\ [][\A tg \in ToggleGroups, b \in Buttons :
            Add(tg, b) =>
              /\ (ret' = "true") <=> (b \in ToggleButtons /\ b \notin Range(tgMembers[tg]))
              /\ ret' \in {"true", "false"}
              /\ ret' = "true" =>
                    /\ tgMembers' = [tgMembers EXCEPT ![tg] = tgMembers[tg] \o <<b>>]
                    /\ btnGroups' = [btnGroups EXCEPT ![b] = btnGroups[b] \o <<tg>>]
              /\ ret' = "false" => UNCHANGED <<tgMembers, btnGroups>>]_vars

\* Add of a button that is already the group's second member returned false.
C25_Witness ==
    /\ lastCall = <<"Add", "tg1", "toggle1">>
    /\ ret = "false"
    /\ tgMembers["tg1"] = <<"toggle2", "toggle1">>
    /\ btnGroups["toggle1"] = <<"tg1">>

\* The button is a member of a group that does not allow deselecting.
InStrictGroup(b) ==
    \E tg \in ToggleGroups : b \in Range(tgMembers[tg]) /\ ~tgDeselectingAllowed[tg]

\* The buttons that are members of a group b is a member of.
Companions(b) ==
    {x \in Buttons \ {b} :
        \E tg \in ToggleGroups : b \in Range(tgMembers[tg]) /\ x \in Range(tgMembers[tg])}

\* C26: a mouse-down or Enter key-down on a selected toggle button leaves it
\* selected if one of its groups does not allow deselecting, and deselects it
\* if all of its groups allow it or it has none; a selected button of a group
\* that does not allow deselecting is deselected only by a step that presses
\* another member of one of its groups.
C26_DeselectingAllowed ==
    [][\A b \in ToggleButtons :
          LET down == Button_onMouse(b, OnMouseDown) \/ Button_onKey(b, OnKeyDown, KeyEnter)
          IN  /\ (btnSelected[b] /\ InStrictGroup(b) /\ down) => btnSelected'[b]
              /\ (btnSelected[b] /\ ~InStrictGroup(b) /\ down) => ~btnSelected'[b]
              /\ (btnSelected[b] /\ InStrictGroup(b) /\ ~btnSelected'[b]) =>
                    \E x \in Companions(b) :
                        /\ btnSelected'[x]
                        /\ lastCall' \in {<<"Press", x, "press">>,
                                          <<"onMouse", x, "press">>,
                                          <<"onKey", x, "press">>}]_vars

\* A mouse-down on a selected button that is in a group that allows
\* deselecting and in one that does not has left it selected.
C26_Witness ==
    /\ lastCall = <<"onMouse", "toggle1", "keep">>
    /\ btnSelected["toggle1"]
    /\ Range(btnGroups["toggle1"]) = ToggleGroups
    /\ InStrictGroup("toggle1")

\* C24: in every radio group at most one member radio button has state true,
\* after any sequence of Add, Remove, SetValue, left mouse-down and Enter
\* key-down.
C24_AtMostOneOn ==
    \A rg \in RadioGroups :
        Cardinality({cb \in Range(rgMembers[rg]) : crState[cb]}) <= 1

\* The positions of the bar's tabs whose selected flag is set.
SelectedPositions == {i \in 0..(Len(tabs) - 1) : tabSelected[tabs[i + 1]]}

\* C27: after any sequence of AddTab, InsertTab, RemoveTab, MoveTab and
\* SetSelected at most one tab of the bar has its selected flag set.
C27_AtMostOneTabSelected == Cardinality(SelectedPositions) <= 1

\* C28: Selected() is below 0 and no tab is selected, or it is a position of
\* the bar and the tab there is the selected one.
C28_SelectedIsThePosition ==
    \/ tbSelected < 0 /\ SelectedPositions = {}
    \/ tbSelected \in 0..(Len(tabs) - 1) /\ SelectedPositions = {tbSelected}

\* C29: RemoveTab of the selected tab selects the tab that was to its right,
\* otherwise the tab that was to its left, if there is one; RemoveTab of a tab
\* that is not selected leaves every selected tab selected.
C29_RemoveTabReselects ==
    [][\A pos \in 0..(Len(tabs) - 1) :
          RemoveTab(pos) =>
            IF tabSelected[tabs[pos + 1]]
            THEN /\ pos + 1 < Len(tabs) => tabSelected'[tabs[pos + 2]]
                 /\ (pos + 1 = Len(tabs) /\ pos > 0) => tabSelected'[tabs[pos]]
            ELSE \A i \in DOMAIN tabs : tabSelected[tabs[i]] => tabSelected'[tabs[i]]]_vars

\* The position is outside 0..TabCount()-1.
Invalid(pos) == pos < 0 \/ pos > Len(tabs) - 1

\* C30: RemoveTab and MoveTab return an error for a position outside
\* 0..TabCount()-1, InsertTab returns nil for a position outside
\* 0..TabCount(), SetSelected and TabAt return nil for a position outside
\* 0..TabCount()-1, and each leaves the tabs and the selection as they are.
C30_InvalidPositions ==
    [][LET op == lastCall'[1]
           pos == lastCall'[2]
           dest == lastCall'[3]
       IN  /\ (op = "RemoveTab" /\ Invalid(pos) /\ RemoveTab(pos))
                 => (ret' = "error" /\ UNCHANGED tabVars)
           /\ (op = "MoveTab" /\ (Invalid(pos) \/ Invalid(dest)) /\ MoveTab(pos, dest))
                 => (ret' = "error" /\ UNCHANGED tabVars)
           /\ (op = "InsertTab" /\ (pos < 0 \/ pos > Len(tabs)) /\ InsertTab(pos))
                 => (ret' = "nil" /\ UNCHANGED tabVars)
           /\ (op = "SetSelected" /\ Invalid(pos) /\ SetSelected(pos))
                 => (ret' = "nil" /\ UNCHANGED tabVars)
           /\ (op = "TabAt" /\ Invalid(pos) /\ TabAt(pos))
                 => (ret' = "nil" /\ UNCHANGED tabVars)]_vars

\* MoveTab to the position after the last of three tabs returned an error and
\* left the second tab selected.
C30_Witness ==
    /\ lastCall = <<"MoveTab", 0, 3>>
    /\ ret = "error"
    /\ Len(tabs) = 3
    /\ tbSelected = 1
    /\ SelectedPositions = {1}

\* C31: MoveTab(src, dest) with valid positions puts the tab that was at src
\* at dest, keeps the set and the number of tabs, and keeps the relative order
\* of all the other tabs.
C31_MoveTabMoves ==
    [][LET src == lastCall'[2]
           dest == lastCall'[3]
       IN  (lastCall'[1] = "MoveTab" /\ ~Invalid(src) /\ ~Invalid(dest) /\ MoveTab(src, dest))
             => /\ tabs'[dest + 1] = tabs[src + 1]
                /\ Range(tabs') = Range(tabs)
                /\ Len(tabs') = Len(tabs)
                /\ \A i \in DOMAIN tabs, j \in DOMAIN tabs :
                      (i < j /\ i # src + 1 /\ j # src + 1)
                        => TabPosition([tabs |-> tabs'], tabs[i])
                              < TabPosition([tabs |-> tabs'], tabs[j])]_vars

\* C32: while the split type is Relative, Split() is a value from 0.0 to 1.0.
C32_RelativeSplitInUnitRange ==
    splitter.splitType = Relative => (0 <= Split /\ Split <= Scale)


RECURSIVE Sum(_, _)
\* The sum of f over the children in S.
Sum(f, S) == IF S = {} THEN 0 ELSE LET c == CHOOSE c \in S : TRUE IN f[c] + Sum(f, S \ {c})

\* C33: after Recalc every edge-docked child has been laid out exactly once,
\* the first child docked to DockCenter has the size that is left (the panel
\* width minus the widths of the left/right-docked children by the panel
\* height minus the heights of the top/bottom-docked children), and no other
\* center child has been laid out.
C33_RecalcLaysOutOnce ==
    LET DockedTo(es) == {c \in Range(DockChildren) : dock.edge[c] \in es}
    IN
    lastCall[1] = "Recalc"
      => /\ \A c \in DockedTo({DockTop, DockRight, DockBottom, DockLeft}) : dock.laid[c] = 1
         /\ \A i \in centerChildren(dock) :
               LET c == DockChildren[i]
               IN  IF \A j \in centerChildren(dock) : i <= j
                   THEN /\ dock.laid[c] = 1
                        /\ dock.width[c] = PanelWidth - Sum(dock.width, DockedTo({DockLeft, DockRight}))
                        /\ dock.height[c] = PanelHeight - Sum(dock.height, DockedTo({DockTop, DockBottom}))
                   ELSE dock.laid[c] = 0

\* C34: the lastClick of a tracked button changes only in a down event for
\* that button that leaves it in phase 1 or 2: no up event, query, event for
\* another button, change of DoubleClickDuration or passing of time changes
\* it.
C34_LastClickOnlyByDown ==
    [][\A b \in TrackedButtons :
          states'[b].lastClick # states[b].lastClick
            => /\ onMouseDown(b)
               /\ states'[b].clickCount \in {1, 2}
               /\ states'[b].lastClick = clock]_vars

\* Left was pressed at a later time than Right, which has been released
\* since, and the window has been changed: only Left's lastClick is the time
\* of that last down.
C34_Witness ==
    /\ lastDown = MouseButtonLeft
    /\ lastEvent[MouseButtonLeft] = "down"
    /\ states[MouseButtonLeft] = mouseButtonState(1, 2 * Tick)
    /\ lastEvent[MouseButtonRight] = "up"
    /\ states[MouseButtonRight] = mouseButtonState(0 - 1, Tick)
    /\ states[MouseButtonMiddle].lastClick = 0
    /\ DoubleClickDuration = 0
    /\ clock = 3 * Tick
    /\ failure = "none"

\* C35 as stated: every down event on a tracked button, which leaves it in
\* phase 1 or 2, makes the time of the event its lastClick, and no other step
\* changes it.
C35_LastClickIsLastPress ==
    [][\A b \in TrackedButtons :
          IF onMouseDown(b)
          THEN states'[b].lastClick = clock
          ELSE states'[b].lastClick = states[b].lastClick]_vars

\* C35: the lastClick of a tracked button is the time of the most recent
\* down event that moved it into phase 1: such an event makes the time of the
\* event its lastClick, and no other step, the down event that moves it into
\* phase 2 included, changes it.
C35_LastClickIsLastSinglePress ==
    [][\A b \in TrackedButtons :
          IF onMouseDown(b) /\ states'[b].clickCount = 1
          THEN states'[b].lastClick = clock
          ELSE states'[b].lastClick = states[b].lastClick]_vars

\* The second down of a double click on Right arrived two ticks after the
\* first, and lastClick is still the time of the first.
C35_Witness ==
    /\ lastDown = MouseButtonRight
    /\ lastRow = "within"
    /\ lastEvent[MouseButtonRight] = "down"
    /\ states[MouseButtonRight] = mouseButtonState(2, Tick)
    /\ clock = 3 * Tick
    /\ RightDoubleClicked

\* C36: the buttons that have a state record are the tracked buttons, after
\* every sequence of events and queries, those naming an untracked button
\* included.
C36_StatesFixed == DOMAIN states = TrackedButtons

\* Left was pressed and released and Right pressed, then Pressed was called
\* with the untracked button: the call failed and added no record.
C36_Witness ==
    /\ failure = "Pressed"
    /\ panicked
    /\ lastEvent[MouseButtonLeft] = "up"
    /\ lastEvent[MouseButtonRight] = "down"
    /\ MouseButtonOther \notin DOMAIN states
    /\ DOMAIN states = TrackedButtons

\* C37: at most one of LeftDoubleClicked, RightDoubleClicked and
\* MiddleDoubleClicked is true.
C37_AtMostOneDoubleClicked ==
    Cardinality({b \in TrackedButtons : DoubleClicked(b)}) <= 1

\* All three buttons are in phase 2 or -2 and only Right, the last one
\* pressed, reports a double click.
C37_Witness ==
    /\ states[MouseButtonLeft].clickCount = 0 - 2
    /\ states[MouseButtonMiddle].clickCount = 2
    /\ states[MouseButtonRight].clickCount = 2
    /\ lastButton = MouseButtonRight
    /\ RightDoubleClicked
    /\ ~LeftDoubleClicked
    /\ ~MiddleDoubleClicked

\* C38: a tracked button whose last event was a down is in phase 1 or 2, a
\* button that has left phase 0 never returns to it, whatever step is taken,
\* and an up event on such a button leaves it in phase -1 or -2.
C38_NeverIdleAgain ==
    /\ [](\A b \in TrackedButtons : lastEvent[b] = "down" => states[b].clickCount \in {1, 2})
    /\ [][\A b \in TrackedButtons :
            states[b].clickCount # 0
              => /\ states'[b].clickCount # 0
                 /\ onMouseUp(b) => states'[b].clickCount \in {0 - 1, 0 - 2}]_vars

\* Left was released after a single click and Middle after a double click,
\* the clock is at its last tick and well past the window of both, and
\* neither is back in phase 0.
C38_Witness ==
    /\ clock = MaxTicks * Tick
    /\ lastEvent[MouseButtonLeft] = "up"
    /\ states[MouseButtonLeft] = mouseButtonState(0 - 1, 0)
    /\ lastEvent[MouseButtonMiddle] = "up"
    /\ states[MouseButtonMiddle] = mouseButtonState(0 - 2, 0)
    /\ lastEvent[MouseButtonRight] = "none"
    /\ states[MouseButtonRight].clickCount = 0
    /\ DoubleClickDuration = 0

====
